---- MODULE Spec2Model ----
(***************************************************************************)
(* Model of the routine pipeline of RMS-filler: the blueprint extraction   *)
(* of a docx table (get_document_context in code/routine.py,               *)
(* routine_get_document_context in coursefile.py), the execution of fill   *)
(* instructions on the clean template (fill_and_save_routine,              *)
(* routine_fill_and_save_routine) and the collision fold of spec 4.4.      *)
(*                                                                         *)
(* A table is a grid of cell identities: two coordinates hold the same     *)
(* identity iff python-docx hands back the same merged cell for both.      *)
(***************************************************************************)
EXTENDS Integers, Sequences, FiniteSets, TLC

\* Bounds of the model.
MaxRows == 2
MaxCols == 3
MaxCells == 6
MaxInstr == 2
MaxFills == 3
MaxCalls == 6

VARIABLES
    total_rows,        \* len(table.rows)
    total_columns,     \* len(table.columns)
    table,             \* [coordinate -> cell identity] of doc.tables[0]
    pc,                \* position in get_document_context
    r_idx, c_idx,      \* the outer row-major scan
    scan_c, scan_r,    \* the loop variables c and r of the two growth scans
    end_row, end_col,
    visited_cells,
    cell_definitions,
    blueprint,         \* the returned table_blueprint, NoValue before the return
    raw_texts,         \* cell.text as read from the document for each emitted cell
    variant,           \* which copy of the writer runs: "routine" or "coursefile"
    json_valid,        \* the instruction string handed to the writer parses as JSON
    fill_pc,           \* position in fill_and_save_routine
    cell_text,         \* [cell identity -> text] of the open template document
    n_done,            \* instructions of the list consumed so far
    last,              \* the instruction consumed last and what became of it
    oob_seen,          \* an instruction outside the grid was consumed
    saved,             \* the cell texts written by doc.save, NoValue before it
    in_bounds_texts,   \* per cell identity, whether no, one or several consumed
                       \* in-bounds instructions address it, and the text of the
                       \* last of them
    fills_done,        \* the ExpandedFills folded so far, in order
    mapping,           \* the FinalMapping: [coordinate -> text]
    candidates,        \* the input of expand: a sequence of Candidates
    cand_i,            \* the Candidate being expanded
    exp_r, exp_c,      \* the loop variables r and c of expand
    expanded,          \* the ExpandedFills emitted so far, in order
    expanded_from,     \* for each emitted fill, the index of its Candidate
    entry,             \* the orchestrator that runs: "main" or "run_routine_process"
    main_pc,           \* position in the orchestrator
    gemini_model,      \* the orchestrator's local gemini_model
    r1_path, r2_path, clean_path, save_path,
    r1_ctx, r2_ctx, cl_ctx,
    run_generation,
    prompt,            \* the contexts put into the prompt sent, NoValue before
    classify_calls,    \* calls of model.generate_content
    instructions,      \* the fill instructions string returned
    fill_calls,        \* calls of fill_and_save_routine
    doc_saves,         \* calls of doc.save
    GEMINI_MODEL,      \* the module-level cached handle
    calls,             \* calls of get_gemini_model made
    key_prompts,       \* calls of input() asking for the API key
    configures,        \* calls of genai.configure
    instances,         \* GenerativeModel objects constructed
    result             \* what the last get_gemini_model call returned

xvars == <<pc, r_idx, c_idx, scan_c, scan_r, end_row, end_col, visited_cells,
           cell_definitions, blueprint, raw_texts>>

fvars == <<variant, json_valid, fill_pc, cell_text, n_done, last, oob_seen, saved, in_bounds_texts>>

rvars == <<fills_done, mapping>>

evars == <<candidates, cand_i, exp_r, exp_c, expanded, expanded_from>>

pvars == <<entry, main_pc, gemini_model, r1_path, r2_path, clean_path, save_path,
           r1_ctx, r2_ctx, cl_ctx, run_generation, prompt, classify_calls,
           instructions, fill_calls, doc_saves>>

gvars == <<GEMINI_MODEL, calls, key_prompts, configures, instances, result>>


NoValue == [none |-> TRUE]

\* Cell identities: a table of n cells holds at most n of them.
Ids == 1 .. (MaxCells + 1)

Coords(R, C) == (0 .. R - 1) \X (0 .. C - 1)

\* The shapes and the tables a document can hold, within the bounds.
Shapes == {s \in (0 .. MaxRows) \X (0 .. MaxCols) : s[1] * s[2] <= MaxCells}

\* Identities are opaque tokens, so a table is drawn with its identities
\* numbered in the row-major order of their first coordinate.
RECURSIVE MaxOf(_)
MaxOf(l) == IF l = <<>> THEN 0
            ELSE LET m == MaxOf(Tail(l)) IN IF Head(l) > m THEN Head(l) ELSE m

RECURSIVE Labellings(_)
Labellings(n) ==
    IF n = 0 THEN {<<>>}
    ELSE UNION {{Append(l, x) : x \in 1 .. (MaxOf(l) + 1)} : l \in Labellings(n - 1)}

Run(S) ==
    \A a \in S, b \in S :
        /\ a[1] = b[1]
        /\ \A c \in a[2] .. b[2] : <<a[1], c>> \in S

\* The identity grids python-docx builds from a table's rows of <w:tc>: a
\* cell either continues the cell above it (vMerge) or belongs to a new <w:tc>,
\* whose gridSpan is one horizontal run, so the coordinates of an identity
\* that do not continue the row above form one run of one row.
Tables(R, C) ==
    {t \in {[p \in Coords(R, C) |-> l[p[1] * C + p[2] + 1]] : l \in Labellings(R * C)} :
        \A id \in 1 .. (R * C) :
            Run({p \in Coords(R, C) :
                    /\ t[p] = id
                    /\ (p[1] = 0 \/ t[<<p[1] - 1, p[2]>>] # id)})}

\* table.cell(row_idx, col_idx) of python-docx reads the flat list of grid cells
\* at col_idx + row_idx * column_count with Python's list indexing: an index
\* past either end of the list raises IndexError,
CellIndexInRange(row_idx, col_idx) ==
    LET n == total_rows * total_columns
        cell_idx == col_idx + row_idx * total_columns
    IN  cell_idx < n /\ cell_idx >= -n

\* and a negative index inside the list counts from its end.
TableCell(row_idx, col_idx) ==
    LET n == total_rows * total_columns
        cell_idx == col_idx + row_idx * total_columns
        j == IF cell_idx < 0 THEN cell_idx + n ELSE cell_idx
    IN  table[<<j \div total_columns, j % total_columns>>]

\* The cell the outer scan stands on: row.cells[c_idx] of table.rows[r_idx].
CurrentCell == table[<<r_idx, c_idx>>]

----------------------------------------------------------------------------
(* Cell texts *)

Newline == "\n"

\* What str.strip() removes.
Whitespace == {" ", Newline, "\t"}

Math == <<"M", "a", "t", "h">>
Lit == <<"L", "i", "t">>
Sci == <<"S", "c", "i">>
\* " A\nB\n": a leading blank, a line break inside and one at the end.
Messy == <<" ", "A", Newline, "B", Newline>>

\* "\n\t": an empty paragraph and a tab, nothing else.
Blank == <<Newline, "\t">>

\* The texts a cell of a source document may hold.
CellTexts == {Math, Lit, Sci, Messy, Blank}

\* text.replace('\n', ' ')
ReplaceNewlines(t) == [i \in 1 .. Len(t) |-> IF t[i] = Newline THEN " " ELSE t[i]]

RECURSIVE StripLeft(_)
StripLeft(t) ==
    IF t # <<>> /\ Head(t) \in Whitespace THEN StripLeft(Tail(t)) ELSE t

RECURSIVE StripRight(_)
StripRight(t) ==
    IF t # <<>> /\ t[Len(t)] \in Whitespace
    THEN StripRight(SubSeq(t, 1, Len(t) - 1))
    ELSE t

\* text.strip()
Strip(t) == StripRight(StripLeft(t))

\* A normalisation that strips and leaves the line breaks inside the text.
NormalizeTextStripOnly(t) == Strip(t)

\* The text kept as the document holds it.
NormalizeTextIdentity(t) == t

\* cell.text.replace('\n', ' ').strip()
NormalizeText(t) == Strip(ReplaceNewlines(t))

----------------------------------------------------------------------------
(* get_document_context / routine_get_document_context *)

\* The parts of the state a run does not touch stay as they start.
ExtractIdle ==
    /\ pc = "start"
    /\ r_idx = 0
    /\ c_idx = 0
    /\ scan_c = 0
    /\ scan_r = 0
    /\ end_row = 0
    /\ end_col = 0
    /\ visited_cells = {}
    /\ cell_definitions = <<>>
    /\ blueprint = NoValue
    /\ raw_texts = <<>>

FillIdle ==
    /\ variant = "routine"
    /\ json_valid = TRUE
    /\ fill_pc = "idle"
    /\ cell_text = [id \in Ids |-> ""]
    /\ n_done = 0
    /\ last = NoValue
    /\ oob_seen = FALSE
    /\ saved = NoValue
    /\ in_bounds_texts = [id \in Ids |-> [entries |-> "none", text |-> ""]]

ReconcileIdle ==
    /\ fills_done = <<>>
    /\ mapping = <<>>

ExpandIdle ==
    /\ candidates = <<>>
    /\ cand_i = 1
    /\ exp_r = 0
    /\ exp_c = 0
    /\ expanded = <<>>
    /\ expanded_from = <<>>

PipelineIdle ==
    /\ entry = "main"
    /\ main_pc = "idle"
    /\ gemini_model = NoValue
    /\ r1_path = NoValue
    /\ r2_path = NoValue
    /\ clean_path = NoValue
    /\ save_path = NoValue
    /\ r1_ctx = NoValue
    /\ r2_ctx = NoValue
    /\ cl_ctx = NoValue
    /\ run_generation = FALSE
    /\ prompt = NoValue
    /\ classify_calls = 0
    /\ instructions = NoValue
    /\ fill_calls = 0
    /\ doc_saves = 0

HandleIdle ==
    /\ GEMINI_MODEL = NoValue
    /\ calls = 0
    /\ key_prompts = 0
    /\ configures = 0
    /\ instances = 0
    /\ result = NoValue

ExtractInit ==
    /\ \E s \in Shapes :
          /\ total_rows = s[1]
          /\ total_columns = s[2]
          /\ table \in Tables(s[1], s[2])
    /\ ExtractIdle
    /\ FillIdle
    /\ ReconcileIdle
    /\ ExpandIdle
    /\ PipelineIdle
    /\ HandleIdle

\* An extraction that treats a table without rows or columns like a document
\* without a table and returns None.
BeginRejectEmpty ==
    /\ pc = "start"
    /\ pc' = IF total_rows = 0 \/ total_columns = 0 THEN "failed" ELSE "scan"
    /\ visited_cells' = {}
    /\ cell_definitions' = <<>>
    /\ r_idx' = 0
    /\ c_idx' = 0
    /\ UNCHANGED <<total_rows, total_columns, table, scan_c, scan_r,
                   end_row, end_col, blueprint, raw_texts, fvars, rvars, evars, pvars, gvars>>

\* The scan enters the two for loops; with no row or no column no cell is
\* enumerated and the function goes straight to building the blueprint.
Begin ==
    /\ pc = "start"
    /\ pc' = IF total_rows = 0 \/ total_columns = 0 THEN "return" ELSE "scan"
    /\ visited_cells' = {}
    /\ cell_definitions' = <<>>
    /\ r_idx' = 0
    /\ c_idx' = 0
    /\ UNCHANGED <<total_rows, total_columns, table, scan_c, scan_r,
                   end_row, end_col, blueprint, raw_texts, fvars, rvars, evars, pvars, gvars>>

\* A scan that walks down the columns instead of along the rows.
AdvanceColumnMajor ==
    IF r_idx + 1 < total_rows
    THEN /\ r_idx' = r_idx + 1
         /\ c_idx' = c_idx
         /\ pc' = "scan"
    ELSE IF c_idx + 1 < total_columns
    THEN /\ r_idx' = 0
         /\ c_idx' = c_idx + 1
         /\ pc' = "scan"
    ELSE /\ r_idx' = r_idx
         /\ c_idx' = c_idx
         /\ pc' = "return"

\* The next (r_idx, c_idx) of the nested enumerate loops, or the end of them.
Advance ==
    IF c_idx + 1 < total_columns
    THEN /\ r_idx' = r_idx
         /\ c_idx' = c_idx + 1
         /\ pc' = "scan"
    ELSE IF r_idx + 1 < total_rows
    THEN /\ r_idx' = r_idx + 1
         /\ c_idx' = 0
         /\ pc' = "scan"
    ELSE /\ r_idx' = r_idx
         /\ c_idx' = c_idx
         /\ pc' = "return"

\* if cell in visited_cells: continue
SkipVisited ==
    /\ pc = "scan"
    /\ CurrentCell \in visited_cells
    /\ Advance
    /\ UNCHANGED <<total_rows, total_columns, table, scan_c, scan_r,
                   end_row, end_col, visited_cells, cell_definitions, blueprint, raw_texts, fvars, rvars,
                   evars, pvars, gvars>>

\* visited_cells.add(cell); the span starts as the single coordinate; the
\* column scan starts at c_idx + 1.
VisitCell ==
    /\ pc = "scan"
    /\ CurrentCell \notin visited_cells
    /\ visited_cells' = visited_cells \cup {CurrentCell}
    /\ end_row' = r_idx
    /\ end_col' = c_idx
    /\ scan_c' = c_idx + 1
    /\ pc' = "grow_col"
    /\ UNCHANGED <<total_rows, total_columns, table, r_idx, c_idx, scan_r,
                   cell_definitions, blueprint, raw_texts, fvars, rvars, evars, pvars, gvars>>

\* A column scan that records the match and never moves to the next column.
GrowColStepStuck ==
    /\ pc = "grow_col"
    /\ scan_c < total_columns
    /\ TableCell(r_idx, scan_c) = CurrentCell
    /\ end_col' = scan_c
    /\ UNCHANGED <<total_rows, total_columns, table, pc, r_idx, c_idx, scan_c, scan_r,
                   end_row, visited_cells, cell_definitions, blueprint, raw_texts, fvars, rvars,
                   evars, pvars, gvars>>

\* for c in range(c_idx + 1, total_columns): the body's "end_col = c" branch.
GrowColStep ==
    /\ pc = "grow_col"
    /\ scan_c < total_columns
    /\ TableCell(r_idx, scan_c) = CurrentCell
    /\ end_col' = scan_c
    /\ scan_c' = scan_c + 1
    /\ UNCHANGED <<total_rows, total_columns, table, pc, r_idx, c_idx, scan_r,
                   end_row, visited_cells, cell_definitions, blueprint, raw_texts, fvars, rvars,
                   evars, pvars, gvars>>

\* The column scan ends: the range is exhausted, or the else branch breaks.
GrowColStop ==
    /\ pc = "grow_col"
    /\ \/ scan_c >= total_columns
       \/ /\ scan_c < total_columns
          /\ TableCell(r_idx, scan_c) # CurrentCell
    /\ scan_r' = r_idx + 1
    /\ pc' = "grow_row"
    /\ UNCHANGED <<total_rows, total_columns, table, r_idx, c_idx, scan_c,
                   end_row, end_col, visited_cells, cell_definitions, blueprint, raw_texts, fvars, rvars,
                   evars, pvars, gvars>>

\* A row scan that walks down the merged cell and forgets to record end_row.
GrowRowStepNoRecord ==
    /\ pc = "grow_row"
    /\ scan_r < total_rows
    /\ TableCell(scan_r, c_idx) = CurrentCell
    /\ scan_r' = scan_r + 1
    /\ UNCHANGED <<total_rows, total_columns, table, pc, r_idx, c_idx, scan_c,
                   end_row, end_col, visited_cells, cell_definitions, blueprint, raw_texts, fvars, rvars,
                   evars, pvars, gvars>>

\* for r in range(r_idx + 1, total_rows): the body's "end_row = r" branch.
GrowRowStep ==
    /\ pc = "grow_row"
    /\ scan_r < total_rows
    /\ TableCell(scan_r, c_idx) = CurrentCell
    /\ end_row' = scan_r
    /\ scan_r' = scan_r + 1
    /\ UNCHANGED <<total_rows, total_columns, table, pc, r_idx, c_idx, scan_c,
                   end_col, visited_cells, cell_definitions, blueprint, raw_texts, fvars, rvars,
                   evars, pvars, gvars>>

\* The row scan ends: the range is exhausted, or the else branch breaks.
GrowRowStop ==
    /\ pc = "grow_row"
    /\ \/ scan_r >= total_rows
       \/ /\ scan_r < total_rows
          /\ TableCell(scan_r, c_idx) # CurrentCell
    /\ pc' = "emit"
    /\ UNCHANGED <<total_rows, total_columns, table, r_idx, c_idx, scan_c, scan_r,
                   end_row, end_col, visited_cells, cell_definitions, blueprint, raw_texts, fvars, rvars,
                   evars, pvars, gvars>>

\* cell_definitions.append({"text": cell.text.replace('\n', ' ').strip(), ...,
\* "start_row": ..., "end_col": ...}), then the inner enumerate moves on.
EmitCell ==
    /\ pc = "emit"
    /\ \E txt \in CellTexts :
          /\ raw_texts' = Append(raw_texts, txt)
          /\ cell_definitions' = Append(cell_definitions,
                                        [text |-> NormalizeText(txt),
                                         start_row |-> r_idx, start_col |-> c_idx,
                                         end_row |-> end_row, end_col |-> end_col])
    /\ Advance
    /\ UNCHANGED <<total_rows, total_columns, table, scan_c, scan_r,
                   end_row, end_col, visited_cells, blueprint, fvars, rvars, evars, pvars, gvars>>

\* blueprint = {"total_rows": ..., "total_columns": ..., "cells": ...}; return
ReturnBlueprint ==
    /\ pc = "return"
    /\ blueprint' = [total_rows |-> total_rows, total_columns |-> total_columns,
                     cells |-> cell_definitions]
    /\ pc' = "done"
    /\ UNCHANGED <<total_rows, total_columns, table, r_idx, c_idx, scan_c, scan_r,
                   end_row, end_col, visited_cells, cell_definitions, raw_texts, fvars, rvars,
                   evars, pvars, gvars>>

ExtractNext ==
    \/ Begin
    \/ SkipVisited
    \/ VisitCell
    \/ GrowColStep
    \/ GrowColStop
    \/ GrowRowStep
    \/ GrowRowStop
    \/ EmitCell
    \/ ReturnBlueprint

----------------------------------------------------------------------------
(* fill_and_save_routine / routine_fill_and_save_routine *)

Texts == {"A", "B"}

\* The instruction objects the API may answer with for a table of R rows and
\* C columns: coordinates inside the grid, one past its end, and negative.
Instructions(R, C) ==
    [row : (0 .. R) \cup {-1, -(R + 1)},
     column : (0 .. C) \cup {-1},
     text_to_fill : Texts]

\* The length of the instruction lists tried: one more on the tables of one
\* or two coordinates, where a third instruction can hit a cell written twice.
ListBound == IF total_rows * total_columns <= 2 THEN MaxInstr + 1 ELSE MaxInstr

\* The writer is entered with an instruction string, valid JSON or not, and
\* the path of a template whose first table is `table`; a template without a
\* table (doc.tables empty) has table = NoValue.
FillInit ==
    /\ \/ \E s \in Shapes :
             /\ s[1] >= 1 /\ s[2] >= 1
             /\ total_rows = s[1]
             /\ total_columns = s[2]
             /\ table \in Tables(s[1], s[2])
       \/ /\ total_rows = 0
          /\ total_columns = 0
          /\ table = NoValue
    /\ variant \in {"routine", "coursefile"}
    /\ json_valid \in BOOLEAN
    /\ fill_pc = "parse"
    /\ cell_text = [id \in Ids |-> ""]
    /\ n_done = 0
    /\ last = NoValue
    /\ oob_seen = FALSE
    /\ saved = NoValue
    /\ in_bounds_texts = [id \in Ids |-> [entries |-> "none", text |-> ""]]
    /\ ExtractIdle
    /\ ReconcileIdle
    /\ ExpandIdle
    /\ PipelineIdle
    /\ HandleIdle

\* instructions = json.loads(...): a string that is not JSON raises
\* JSONDecodeError, which both copies catch to return False.
FillParse ==
    /\ fill_pc = "parse"
    /\ fill_pc' = IF json_valid THEN "open" ELSE "failed"
    /\ UNCHANGED <<total_rows, total_columns, table, variant, json_valid, cell_text, n_done,
                   last, oob_seen, saved, in_bounds_texts, xvars, rvars, evars, pvars, gvars>>

\* doc = docx.Document(path); if not doc.tables: return False
FillOpen ==
    /\ fill_pc = "open"
    /\ fill_pc' = IF table = NoValue THEN "failed" ELSE "loop"
    /\ UNCHANGED <<total_rows, total_columns, table, variant, json_valid, cell_text, n_done,
                   last, oob_seen, saved, in_bounds_texts, xvars, rvars, evars, pvars, gvars>>

\* The bounds rule of GridWriter (spec 4.5): 0 <= row < totalRows and
\* 0 <= column < totalColumns of the destination.
InBounds(inst) ==
    /\ 0 <= inst.row /\ inst.row < total_rows
    /\ 0 <= inst.column /\ inst.column < total_columns

\* if r < len(table.rows) and c < len(table.columns):
PassesGuard(inst) ==
    /\ inst.row < total_rows
    /\ inst.column < total_columns

\* A write that lands on the first cell of the table whatever the coordinate.
TextAfterWriteFirstCell(cell, txt) == [cell_text EXCEPT ![table[<<0, 0>>]] = txt]

\* cell.text = text_to_fill: the text of the merged cell the proxy stands for.
TextAfterWrite(cell, txt) == [cell_text EXCEPT ![cell] = txt]

Consumed(inst, outcome) ==
    /\ n_done' = n_done + 1
    /\ last' = [inst |-> inst, outcome |-> outcome, after_oob |-> oob_seen]
    /\ oob_seen' = (oob_seen \/ ~InBounds(inst))
    /\ in_bounds_texts' =
          IF InBounds(inst)
          THEN [in_bounds_texts EXCEPT ![table[<<inst.row, inst.column>>]] =
                    [entries |-> IF @.entries = "none" THEN "one" ELSE "several",
                     text |-> inst.text_to_fill]]
          ELSE in_bounds_texts

\* The guard holds and table.cell(r, c) finds a cell: its text is set.
FillApply ==
    /\ fill_pc = "loop"
    /\ n_done < ListBound
    /\ \E inst \in Instructions(total_rows, total_columns) :
          /\ PassesGuard(inst)
          /\ CellIndexInRange(inst.row, inst.column)
          /\ cell_text' = TextAfterWrite(TableCell(inst.row, inst.column),
                                         inst.text_to_fill)
          /\ Consumed(inst, "applied")
    /\ UNCHANGED <<total_rows, total_columns, table, variant, json_valid, fill_pc, saved, xvars, rvars,
                   evars, pvars, gvars>>

\* The guard fails: the instruction is ignored and the loop goes on.
FillSkip ==
    /\ fill_pc = "loop"
    /\ n_done < ListBound
    /\ \E inst \in Instructions(total_rows, total_columns) :
          /\ ~PassesGuard(inst)
          /\ Consumed(inst, "skipped")
    /\ UNCHANGED <<total_rows, total_columns, table, variant, json_valid, fill_pc, cell_text,
                   saved, xvars, rvars, evars, pvars, gvars>>

\* The guard holds and table.cell(r, c) raises IndexError: routine.py catches
\* it (except Exception) and returns False; coursefile.py catches only
\* JSONDecodeError and KeyError, so the error leaves the function. Neither
\* reaches doc.save.
FillIndexError ==
    /\ fill_pc = "loop"
    /\ n_done < ListBound
    /\ \E inst \in Instructions(total_rows, total_columns) :
          /\ PassesGuard(inst)
          /\ ~CellIndexInRange(inst.row, inst.column)
          /\ Consumed(inst, "error")
    /\ fill_pc' = IF variant = "routine" THEN "failed" ELSE "raised"
    /\ UNCHANGED <<total_rows, total_columns, table, variant, json_valid, cell_text, saved, xvars, rvars,
                   evars, pvars, gvars>>

\* An instruction object without the key text_to_fill.
MissingKey == {[row |-> 0, column |-> 0]}

\* A writer in which the KeyError of a lookup leaves the function.
FillKeyErrorUncaught ==
    /\ fill_pc = "loop"
    /\ n_done < ListBound
    /\ \E inst \in MissingKey :
          /\ n_done' = n_done + 1
          /\ last' = [inst |-> inst, outcome |-> "keyerror", after_oob |-> oob_seen]
    /\ fill_pc' = "raised"
    /\ UNCHANGED <<total_rows, total_columns, table, variant, json_valid, cell_text, oob_seen,
                   saved, in_bounds_texts, xvars, rvars, evars, pvars, gvars>>

\* An instruction lacks a key. routine.py looks the keys up, the KeyError is
\* caught (except Exception) and the function returns False; coursefile.py
\* tests for the three keys first and passes over the instruction.
FillKeyError ==
    /\ fill_pc = "loop"
    /\ n_done < ListBound
    /\ \E inst \in MissingKey :
          /\ n_done' = n_done + 1
          /\ last' = [inst |-> inst, outcome |-> "keyerror", after_oob |-> oob_seen]
    /\ fill_pc' = IF variant = "routine" THEN "failed" ELSE "loop"
    /\ UNCHANGED <<total_rows, total_columns, table, variant, json_valid, cell_text, oob_seen,
                   saved, in_bounds_texts, xvars, rvars, evars, pvars, gvars>>

\* The list is exhausted: doc.save(save_path); return True
FillSave ==
    /\ fill_pc = "loop"
    /\ saved' = cell_text
    /\ fill_pc' = "saved"
    /\ UNCHANGED <<total_rows, total_columns, table, variant, json_valid, cell_text, n_done,
                   last, oob_seen, in_bounds_texts, xvars, rvars, evars, pvars, gvars>>

FillNext ==
    \/ FillParse
    \/ FillOpen
    \/ FillApply
    \/ FillSkip
    \/ FillIndexError
    \/ FillKeyError
    \/ FillSave

----------------------------------------------------------------------------
(* The collision fold of the ReconciliationEngine (spec 4.4). The repository
   holds no such fold: it asks the generative model to combine colliding
   texts (step 4 of the prompt), so the fold is written from the spec. *)

\* Texts are sequences of characters.
TextA == <<"A">>
TextB == <<"B">>
TextAB == <<"A", "B">>
Physics == <<"P", "h", "y", "s", "i", "c", "s", " ", "(", "3", "r", "d", " ",
             "s", "e", "m", ")">>
PhysicsLab == <<"P", "h", "y", "s", "i", "c", "s", " ", "L", "a", "b", " ",
                "(", "3", "r", "d", " ", "s", "e", "m", ")">>

FillTexts == {TextA, TextB, TextAB, Physics, PhysicsLab}

ExpandedFills == [row : {1, 3}, column : {1, 2}, text : FillTexts]

\* t occurs in acc as a run of consecutive characters.
IsSubstring(t, acc) ==
    \E i \in 0 .. (Len(acc) - Len(t)) : SubSeq(acc, i + 1, i + Len(t)) = t

\* A fold that appends every later fill, with no idempotence guard.
ReconcileFillNoGuard(m, f) ==
    LET k == <<f.row, f.column>>
    IN  IF k \notin DOMAIN m
        THEN m @@ (k :> f.text)
        ELSE [m EXCEPT ![k] = m[k] \o <<Newline>> \o f.text]

\* A fold that puts the later text in front of the accumulated one.
ReconcileFillPrepend(m, f) ==
    LET k == <<f.row, f.column>>
    IN  IF k \notin DOMAIN m
        THEN m @@ (k :> f.text)
        ELSE IF IsSubstring(f.text, m[k])
        THEN m
        ELSE [m EXCEPT ![k] = f.text \o <<Newline>> \o m[k]]

\* A fold that drops the fills outside the destination grid.
ReconcileFillBoundsChecked(m, f) ==
    LET k == <<f.row, f.column>>
    IN  IF ~ InBounds(f)
        THEN m
        ELSE IF k \notin DOMAIN m
        THEN m @@ (k :> f.text)
        ELSE IF IsSubstring(f.text, m[k])
        THEN m
        ELSE [m EXCEPT ![k] = m[k] \o <<Newline>> \o f.text]

\* One step of the fold: the first fill of a coordinate sets its entry; a later
\* one is appended after a newline unless the entry already contains it.
ReconcileFill(m, f) ==
    LET k == <<f.row, f.column>>
    IN  IF k \notin DOMAIN m
        THEN m @@ (k :> f.text)
        ELSE IF IsSubstring(f.text, m[k])
        THEN m
        ELSE [m EXCEPT ![k] = m[k] \o <<Newline>> \o f.text]

\* reconcile(expandedFills, destinationTotalRows, destinationTotalColumns):
\* of the destination it takes the two totals only.
ReconcileInit ==
    /\ total_rows = MaxRows
    /\ total_columns = MaxCols
    /\ table = <<>>
    /\ ExtractIdle
    /\ FillIdle
    /\ ReconcileIdle
    /\ ExpandIdle
    /\ PipelineIdle
    /\ HandleIdle

\* reconcile consumes the next ExpandedFill of its input.
ReconcileStep ==
    /\ Len(fills_done) < MaxFills
    /\ \E f \in ExpandedFills :
          /\ mapping' = ReconcileFill(mapping, f)
          /\ fills_done' = Append(fills_done, f)
    /\ UNCHANGED <<total_rows, total_columns, table, xvars, fvars, evars, pvars, gvars>>

ReconcileNext == ReconcileStep

----------------------------------------------------------------------------
(* The orchestrators: main of routine.py and run_routine_process of
   coursefile.py, from the first dialog to the end of the function *)

\* A Python string held by a local of the orchestrator.
Str(chars) == [str |-> chars]

\* bool(v) of a local: None and the empty string are false.
Truthy(v) == v \notin {NoValue, Str("")}

\* A file dialog returns the chosen path, or "" when the user cancels.
Selections == {Str("chosen.docx"), Str("")}

\* get_document_context returns a dict with the blueprint, or None; of the
\* blueprint the orchestrator's control flow never looks inside.
Contexts == {[n_cells |-> n] : n \in 0 .. MaxCells}

\* The cleaned response text of the generative model, empty or not.
Responses == {Str(""), Str("[]"), Str("[fill]")}

Handle(n) == [model |-> "gemini-2.5-pro", id |-> n]

PipelineInit ==
    /\ total_rows = 0
    /\ total_columns = 0
    /\ table = <<>>
    /\ entry \in {"main", "run_routine_process"}
    /\ main_pc = IF entry = "main" THEN "configure" ELSE "select1"
    /\ gemini_model = NoValue
    /\ r1_path = NoValue
    /\ r2_path = NoValue
    /\ clean_path = NoValue
    /\ save_path = NoValue
    /\ r1_ctx = NoValue
    /\ r2_ctx = NoValue
    /\ cl_ctx = NoValue
    /\ run_generation = FALSE
    /\ prompt = NoValue
    /\ classify_calls = 0
    /\ instructions = NoValue
    /\ fill_calls = 0
    /\ doc_saves = 0
    /\ ExtractIdle
    /\ FillIdle
    /\ ReconcileIdle
    /\ ExpandIdle
    /\ HandleIdle

\* gemini_model = configure_gemini_api(); if not gemini_model: return
ConfigureApi ==
    /\ entry = "main"
    /\ main_pc = "configure"
    /\ \E m \in {Handle(1), NoValue} :
          /\ gemini_model' = m
          /\ main_pc' = IF Truthy(m) THEN "select1" ELSE "done"
    /\ UNCHANGED <<entry, r1_path, r2_path, clean_path, save_path, r1_ctx, r2_ctx,
                   cl_ctx, run_generation, prompt, classify_calls, instructions,
                   fill_calls, doc_saves>>
    /\ UNCHANGED <<total_rows, total_columns, table, xvars, fvars, rvars, evars, gvars>>

\* The first dialog. main returns on a cancel; run_routine_process opens the
\* second dialog first.
SelectFirst ==
    /\ main_pc = "select1"
    /\ \E path \in Selections :
          /\ r1_path' = path
          /\ main_pc' = IF entry = "main" /\ ~ Truthy(path) THEN "done" ELSE "select2"
    /\ UNCHANGED <<entry, gemini_model, r2_path, clean_path, save_path, r1_ctx, r2_ctx,
                   cl_ctx, run_generation, prompt, classify_calls, instructions,
                   fill_calls, doc_saves>>
    /\ UNCHANGED <<total_rows, total_columns, table, xvars, fvars, rvars, evars, gvars>>

\* The second dialog. run_routine_process returns unless both paths were chosen.
SelectSecond ==
    /\ main_pc = "select2"
    /\ \E path \in Selections :
          /\ r2_path' = path
          /\ main_pc' = IF entry = "main"
                        THEN (IF Truthy(path) THEN "select3" ELSE "done")
                        ELSE (IF Truthy(r1_path) /\ Truthy(path) THEN "ctx1" ELSE "done")
    /\ UNCHANGED <<entry, gemini_model, r1_path, clean_path, save_path, r1_ctx, r2_ctx,
                   cl_ctx, run_generation, prompt, classify_calls, instructions,
                   fill_calls, doc_saves>>
    /\ UNCHANGED <<total_rows, total_columns, table, xvars, fvars, rvars, evars, gvars>>

\* main: the dialog for the clean template.
SelectTemplate ==
    /\ entry = "main"
    /\ main_pc = "select3"
    /\ \E path \in Selections :
          /\ clean_path' = path
          /\ main_pc' = IF Truthy(path) THEN "ctx1" ELSE "done"
    /\ UNCHANGED <<entry, gemini_model, r1_path, r2_path, save_path, r1_ctx, r2_ctx,
                   cl_ctx, run_generation, prompt, classify_calls, instructions,
                   fill_calls, doc_saves>>
    /\ UNCHANGED <<total_rows, total_columns, table, xvars, fvars, rvars, evars, gvars>>

\* The context of source 1 is built; nothing is tested yet.
BuildContext1 ==
    /\ main_pc = "ctx1"
    /\ r1_ctx' \in Contexts \cup {NoValue}
    /\ main_pc' = "ctx2"
    /\ UNCHANGED <<entry, gemini_model, r1_path, r2_path, clean_path, save_path, r2_ctx,
                   cl_ctx, run_generation, prompt, classify_calls, instructions,
                   fill_calls, doc_saves>>
    /\ UNCHANGED <<total_rows, total_columns, table, xvars, fvars, rvars, evars, gvars>>

\* The context of source 2 is built; run_routine_process then decides whether
\* to generate.
BuildContext2 ==
    /\ main_pc = "ctx2"
    /\ r2_ctx' \in Contexts \cup {NoValue}
    /\ main_pc' = IF entry = "main" THEN "ctx3" ELSE "decide"
    /\ UNCHANGED <<entry, gemini_model, r1_path, r2_path, clean_path, save_path, r1_ctx,
                   cl_ctx, run_generation, prompt, classify_calls, instructions,
                   fill_calls, doc_saves>>
    /\ UNCHANGED <<total_rows, total_columns, table, xvars, fvars, rvars, evars, gvars>>

\* run_routine_process: generate when there is no personal routine file yet or
\* the user asks to regenerate it; otherwise go on to the pasting.
DecideGeneration ==
    /\ entry = "run_routine_process"
    /\ main_pc = "decide"
    /\ \E answer \in BOOLEAN :
          /\ run_generation' = answer
          /\ main_pc' = IF answer THEN "get_model" ELSE "paste"
    /\ UNCHANGED <<entry, gemini_model, r1_path, r2_path, clean_path, save_path, r1_ctx,
                   r2_ctx, cl_ctx, prompt, classify_calls, instructions,
                   fill_calls, doc_saves>>
    /\ UNCHANGED <<total_rows, total_columns, table, xvars, fvars, rvars, evars, gvars>>

\* gemini_model = get_gemini_model(); if not gemini_model: return
GetModel ==
    /\ entry = "run_routine_process"
    /\ main_pc = "get_model"
    /\ \E m \in {Handle(1), NoValue} :
          /\ gemini_model' = m
          /\ main_pc' = IF Truthy(m) THEN "clean_exists" ELSE "done"
    /\ UNCHANGED <<entry, r1_path, r2_path, clean_path, save_path, r1_ctx, r2_ctx,
                   cl_ctx, run_generation, prompt, classify_calls, instructions,
                   fill_calls, doc_saves>>
    /\ UNCHANGED <<total_rows, total_columns, table, xvars, fvars, rvars, evars, gvars>>

\* run_routine_process takes clean_routine.docx of the script directory and
\* returns when it does not exist (written here as no path).
CleanExists ==
    /\ entry = "run_routine_process"
    /\ main_pc = "clean_exists"
    /\ \E path \in {Str("clean_routine.docx"), Str("")} :
          /\ clean_path' = path
          /\ main_pc' = IF Truthy(path) THEN "ctx3" ELSE "done"
    /\ UNCHANGED <<entry, gemini_model, r1_path, r2_path, save_path, r1_ctx, r2_ctx,
                   cl_ctx, run_generation, prompt, classify_calls, instructions,
                   fill_calls, doc_saves>>
    /\ UNCHANGED <<total_rows, total_columns, table, xvars, fvars, rvars, evars, gvars>>

\* A test that lets the run go on when some blueprint was built.
AnyContext(c1, c2, c3) == Truthy(c1) \/ Truthy(c2) \/ Truthy(c3)

\* all([routine1_context, routine2_context, clean_template_context])
AllContexts(c1, c2, c3) == Truthy(c1) /\ Truthy(c2) /\ Truthy(c3)

\* The context of the clean template is built, then the three are tested.
BuildContext3 ==
    /\ main_pc = "ctx3"
    /\ \E ctx \in Contexts \cup {NoValue} :
          /\ cl_ctx' = ctx
          /\ main_pc' = IF AllContexts(r1_ctx, r2_ctx, ctx) THEN "generate" ELSE "done"
    /\ UNCHANGED <<entry, gemini_model, r1_path, r2_path, clean_path, save_path, r1_ctx,
                   r2_ctx, run_generation, prompt, classify_calls, instructions,
                   fill_calls, doc_saves>>
    /\ UNCHANGED <<total_rows, total_columns, table, xvars, fvars, rvars, evars, gvars>>

\* Where the orchestrator goes with the returned instructions: main returns
\* on a false value and else asks for the save path; run_routine_process fills
\* on a true value and else logs an error and goes on to the pasting.
AfterGenerate(text) ==
    IF entry = "main"
    THEN (IF Truthy(text) THEN "save_path" ELSE "done")
    ELSE (IF Truthy(text) THEN "fill" ELSE "paste")

\* A generation that asks the model once for every cell of the two source
\* blueprints.
GenerateFillInstructionsPerCell ==
    /\ main_pc = "generate"
    /\ prompt' = <<r1_ctx, r2_ctx, cl_ctx>>
    /\ classify_calls' = classify_calls + r1_ctx.n_cells + r2_ctx.n_cells
    /\ \E text \in Responses \cup {NoValue} :
          /\ instructions' = text
          /\ main_pc' = AfterGenerate(text)
    /\ UNCHANGED <<entry, gemini_model, r1_path, r2_path, clean_path, save_path, r1_ctx,
                   r2_ctx, cl_ctx, run_generation, fill_calls, doc_saves>>
    /\ UNCHANGED <<total_rows, total_columns, table, xvars, fvars, rvars, evars, gvars>>

\* generate_fill_instructions: one prompt with the contexts of routine 1,
\* routine 2 and the clean template, one model.generate_content call; the
\* cleaned response text is returned, None when the call raises.
GenerateFillInstructions ==
    /\ main_pc = "generate"
    /\ prompt' = <<r1_ctx, r2_ctx, cl_ctx>>
    /\ classify_calls' = classify_calls + 1
    /\ \E text \in Responses \cup {NoValue} :
          /\ instructions' = text
          /\ main_pc' = AfterGenerate(text)
    /\ UNCHANGED <<entry, gemini_model, r1_path, r2_path, clean_path, save_path, r1_ctx,
                   r2_ctx, cl_ctx, run_generation, fill_calls, doc_saves>>
    /\ UNCHANGED <<total_rows, total_columns, table, xvars, fvars, rvars, evars, gvars>>

\* main: the Save As dialog; a cancel ends the run.
SelectSavePath ==
    /\ entry = "main"
    /\ main_pc = "save_path"
    /\ \E path \in Selections :
          /\ save_path' = path
          /\ main_pc' = IF Truthy(path) THEN "fill" ELSE "done"
    /\ UNCHANGED <<entry, gemini_model, r1_path, r2_path, clean_path, r1_ctx, r2_ctx,
                   cl_ctx, run_generation, prompt, classify_calls, instructions,
                   fill_calls, doc_saves>>
    /\ UNCHANGED <<total_rows, total_columns, table, xvars, fvars, rvars, evars, gvars>>

\* What a call of the writer can come to: the document saved, an exception
\* caught inside the writer, or (coursefile.py catches JSONDecodeError and
\* KeyError only) an exception that leaves the orchestrator.
FillOutcomes ==
    IF entry = "main" THEN {"saved", "caught"} ELSE {"saved", "caught", "raised"}

\* The one call of fill_and_save_routine / routine_fill_and_save_routine.
FillAndSave ==
    /\ main_pc = "fill"
    /\ fill_calls' = fill_calls + 1
    /\ \E outcome \in FillOutcomes :
          /\ doc_saves' = IF outcome = "saved" THEN doc_saves + 1 ELSE doc_saves
          /\ main_pc' = IF entry = "main" THEN "done"
                        ELSE IF outcome = "raised" THEN "raised" ELSE "paste"
    /\ UNCHANGED <<entry, gemini_model, r1_path, r2_path, clean_path, save_path, r1_ctx,
                   r2_ctx, cl_ctx, run_generation, prompt, classify_calls, instructions>>
    /\ UNCHANGED <<total_rows, total_columns, table, xvars, fvars, rvars, evars, gvars>>

\* run_routine_process: the tables are pasted into the course document; the
\* template is not filled here.
PasteTables ==
    /\ entry = "run_routine_process"
    /\ main_pc = "paste"
    /\ main_pc' = "done"
    /\ UNCHANGED <<entry, gemini_model, r1_path, r2_path, clean_path, save_path, r1_ctx,
                   r2_ctx, cl_ctx, run_generation, prompt, classify_calls, instructions,
                   fill_calls, doc_saves>>
    /\ UNCHANGED <<total_rows, total_columns, table, xvars, fvars, rvars, evars, gvars>>

PipelineNext ==
    \/ ConfigureApi
    \/ SelectFirst
    \/ SelectSecond
    \/ SelectTemplate
    \/ BuildContext1
    \/ BuildContext2
    \/ DecideGeneration
    \/ GetModel
    \/ CleanExists
    \/ BuildContext3
    \/ GenerateFillInstructions
    \/ SelectSavePath
    \/ FillAndSave
    \/ PasteTables

----------------------------------------------------------------------------
(* get_gemini_model of coursefile.py and the module-level GEMINI_MODEL *)

HandleInit ==
    /\ total_rows = 0
    /\ total_columns = 0
    /\ table = <<>>
    /\ GEMINI_MODEL = NoValue
    /\ calls = 0
    /\ key_prompts = 0
    /\ configures = 0
    /\ instances = 0
    /\ result = NoValue
    /\ ExtractIdle
    /\ FillIdle
    /\ ReconcileIdle
    /\ ExpandIdle
    /\ PipelineIdle

\* os.environ.get("GOOGLE_API_KEY"): the key, or None.
EnvKeys == {Str("key"), NoValue}

\* What input() gives: a key, an empty line, or an exception.
TypedKeys == {Str("key"), Str(""), [raises |-> TRUE]}

\* A handle getter that never looks at the cache.
GetGeminiModelNoCache ==
    /\ calls < MaxCalls
    /\ calls' = calls + 1
    /\ \E env \in EnvKeys, typed \in TypedKeys, configure_ok \in BOOLEAN,
          construct_ok \in BOOLEAN :
          LET asks == ~ Truthy(env)
              api_key == IF asks THEN typed ELSE env
              has_key == api_key \in {Str("key")}
          IN  /\ key_prompts' = IF asks THEN key_prompts + 1 ELSE key_prompts
              /\ configures' = IF has_key THEN configures + 1 ELSE configures
              /\ IF has_key /\ configure_ok /\ construct_ok
                 THEN /\ instances' = instances + 1
                      /\ GEMINI_MODEL' = Handle(instances + 1)
                      /\ result' = Handle(instances + 1)
                 ELSE /\ instances' = instances
                      /\ GEMINI_MODEL' = GEMINI_MODEL
                      /\ result' = NoValue
    /\ UNCHANGED <<total_rows, total_columns, table, xvars, fvars, rvars, evars, pvars>>

\* One call of get_gemini_model. With the cache set it returns the cache. Else
\* it reads the key from the environment or asks for it with input(); with no
\* key, or when input, genai.configure or the GenerativeModel constructor
\* raises, it returns None and the cache stays None; else it stores the new
\* model in the cache and returns it.
GetGeminiModel ==
    /\ calls < MaxCalls
    /\ calls' = calls + 1
    /\ IF GEMINI_MODEL # NoValue
       THEN /\ result' = GEMINI_MODEL
            /\ UNCHANGED <<GEMINI_MODEL, key_prompts, configures, instances>>
       ELSE \E env \in EnvKeys, typed \in TypedKeys, configure_ok \in BOOLEAN,
               construct_ok \in BOOLEAN :
               LET asks == ~ Truthy(env)
                   api_key == IF asks THEN typed ELSE env
                   has_key == api_key \in {Str("key")}
               IN  /\ key_prompts' = IF asks THEN key_prompts + 1 ELSE key_prompts
                   /\ configures' = IF has_key THEN configures + 1 ELSE configures
                   /\ IF has_key /\ configure_ok /\ construct_ok
                      THEN /\ instances' = instances + 1
                           /\ GEMINI_MODEL' = Handle(instances + 1)
                           /\ result' = Handle(instances + 1)
                      ELSE /\ instances' = instances
                           /\ GEMINI_MODEL' = GEMINI_MODEL
                           /\ result' = NoValue
    /\ UNCHANGED <<total_rows, total_columns, table, xvars, fvars, rvars, evars, pvars>>

HandleNext == GetGeminiModel

----------------------------------------------------------------------------
(* SpanExpander: expand(candidates), as section 4.3 of the design describes it.
   The repository holds no expansion code: its prompt asks the generative model
   for one fill instruction per covered coordinate. *)

\* Region: an inclusive axis-aligned rectangle with startRow <= endRow and
\* startCol <= endCol.
Regions ==
    {reg \in [startRow : 0 .. (MaxRows - 1), startCol : 0 .. (MaxCols - 1),
               endRow : 0 .. (MaxRows - 1), endCol : 0 .. (MaxCols - 1)] :
        reg.startRow <= reg.endRow /\ reg.startCol <= reg.endCol}

Candidates == [sourceIndex : {1, 2}, region : Regions, text : {TextA, TextB}]

\* The inputs of expand: no Candidate, one, or two.
CandidateLists ==
    {<<>>} \cup {<<a>> : a \in Candidates}
           \cup {<<a, b>> : a \in Candidates, b \in Candidates}

\* The loops start at the top-left coordinate of Candidate i, if there is one.
ExpandStart(cands, i) ==
    IF i <= Len(cands)
    THEN <<cands[i].region.startRow, cands[i].region.startCol>>
    ELSE <<0, 0>>

ExpandInit ==
    /\ total_rows = 0
    /\ total_columns = 0
    /\ table = <<>>
    /\ candidates \in CandidateLists
    /\ cand_i = 1
    /\ exp_r = ExpandStart(candidates, 1)[1]
    /\ exp_c = ExpandStart(candidates, 1)[2]
    /\ expanded = <<>>
    /\ expanded_from = <<>>
    /\ ExtractIdle
    /\ FillIdle
    /\ ReconcileIdle
    /\ PipelineIdle
    /\ HandleIdle

\* An expansion that emits one fill per Candidate, at its top-left coordinate.
ExpandAdvanceTopLeftOnly ==
    /\ cand_i' = cand_i + 1
    /\ exp_r' = ExpandStart(candidates, cand_i + 1)[1]
    /\ exp_c' = ExpandStart(candidates, cand_i + 1)[2]

\* An expansion that walks a region down its columns.
ExpandAdvanceColumnMajor ==
    LET reg == candidates[cand_i].region
    IN  IF exp_r < reg.endRow
        THEN /\ exp_r' = exp_r + 1
             /\ exp_c' = exp_c
             /\ cand_i' = cand_i
        ELSE IF exp_c < reg.endCol
        THEN /\ exp_r' = reg.startRow
             /\ exp_c' = exp_c + 1
             /\ cand_i' = cand_i
        ELSE /\ cand_i' = cand_i + 1
             /\ exp_r' = ExpandStart(candidates, cand_i + 1)[1]
             /\ exp_c' = ExpandStart(candidates, cand_i + 1)[2]

\* for r in [startRow, endRow], for c in [startCol, endCol], Candidate after
\* Candidate: the next (Candidate, r, c).
ExpandAdvance ==
    LET reg == candidates[cand_i].region
    IN  IF exp_c < reg.endCol
        THEN /\ exp_c' = exp_c + 1
             /\ exp_r' = exp_r
             /\ cand_i' = cand_i
        ELSE IF exp_r < reg.endRow
        THEN /\ exp_c' = reg.startCol
             /\ exp_r' = exp_r + 1
             /\ cand_i' = cand_i
        ELSE /\ cand_i' = cand_i + 1
             /\ exp_r' = ExpandStart(candidates, cand_i + 1)[1]
             /\ exp_c' = ExpandStart(candidates, cand_i + 1)[2]

\* emit ExpandedFill{sourceIndex, r, c, text}
ExpandEmit ==
    /\ cand_i <= Len(candidates)
    /\ expanded' = Append(expanded,
           [sourceIndex |-> candidates[cand_i].sourceIndex, row |-> exp_r,
            column |-> exp_c, text |-> candidates[cand_i].text])
    /\ expanded_from' = Append(expanded_from, cand_i)
    /\ ExpandAdvance
    /\ UNCHANGED <<total_rows, total_columns, table, candidates,
                   xvars, fvars, rvars, pvars, gvars>>

ExpandNext == ExpandEmit

vars == <<total_rows, total_columns, table, xvars, raw_texts, fvars, rvars, evars, pvars, gvars>>

Init == ExtractInit

Next == ExtractNext

Spec == Init /\ [][Next]_vars

\* The interpreter runs the function to its end: a step that can be taken is taken.
LiveSpec == Init /\ [][Next]_vars /\ WF_vars(Next)

FillSpec == FillInit /\ [][FillNext]_vars

ReconcileSpec == ReconcileInit /\ [][ReconcileNext]_vars

ExpandSpec == ExpandInit /\ [][ExpandNext]_vars

PipelineSpec == PipelineInit /\ [][PipelineNext]_vars

HandleSpec == HandleInit /\ [][HandleNext]_vars

----------------------------------------------------------------------------
(* Vocabulary of the blueprint properties *)

Grid == Coords(total_rows, total_columns)

CellsOf(id) == {p \in Grid : table[p] = id}

Present(id) == CellsOf(id) # {}

Rect(r0, c0, r1, c1) == {p \in Grid : r0 <= p[1] /\ p[1] <= r1 /\ c0 <= p[2] /\ p[2] <= c1}

\* The coordinates of an identity form a solid axis-aligned rectangle.
Solid(id) ==
    \/ ~Present(id)
    \/ \E a \in CellsOf(id), b \in CellsOf(id) :
          CellsOf(id) = Rect(a[1], a[2], b[1], b[2])

WellFormed == \A id \in Ids : Solid(id)

RegionOf(cell) == Rect(cell.start_row, cell.start_col, cell.end_row, cell.end_col)

\* The identity a blueprint cell was emitted for: the one at its top-left.
IdentityOf(cell) == table[<<cell.start_row, cell.start_col>>]

Returned == pc = "done"

Cells == blueprint.cells

CellIndexes == 1 .. Len(Cells)

----------------------------------------------------------------------------
(* Claims on blueprint extraction *)

\* C1: for a grid whose merged cells are all solid rectangles, the regions of
\* the returned blueprint are pairwise disjoint and cover every coordinate of
\* [0,totalRows) x [0,totalColumns) exactly once.
C1_Partition ==
    (Returned /\ WellFormed) =>
        /\ \A p \in Grid :
              Cardinality({i \in CellIndexes : p \in RegionOf(Cells[i])}) = 1
        /\ \A i \in CellIndexes :
              /\ 0 <= Cells[i].start_row /\ Cells[i].end_row < blueprint.total_rows
              /\ 0 <= Cells[i].start_col /\ Cells[i].end_col < blueprint.total_columns
        /\ \A i \in CellIndexes, j \in CellIndexes :
              i # j => RegionOf(Cells[i]) \cap RegionOf(Cells[j]) = {}

\* A well-formed grid with a merge spanning rows and columns beside other cells.
C1_Witness ==
    /\ Returned
    /\ WellFormed
    /\ Len(Cells) >= 2
    /\ \E i \in CellIndexes :
          Cells[i].end_row > Cells[i].start_row /\ Cells[i].end_col > Cells[i].start_col

\* C2: every emitted region holds exactly the coordinates of the identity at
\* its top-left (all inside map to it, none outside does), and
\* startRow <= endRow < totalRows, startCol <= endCol < totalColumns.
C2_RegionInvariant ==
    Returned =>
        \A i \in CellIndexes :
            /\ \A p \in Grid : (p \in RegionOf(Cells[i])) <=> (table[p] = IdentityOf(Cells[i]))
            /\ Cells[i].start_row <= Cells[i].end_row
            /\ Cells[i].end_row < blueprint.total_rows
            /\ Cells[i].start_col <= Cells[i].end_col
            /\ Cells[i].end_col < blueprint.total_columns

\* C8: an identity that does not occupy a solid rectangle gets no region in a
\* returned blueprint (the extraction has no error outcome for it either).
C8_MalformedRejected ==
    Returned =>
        \A id \in Ids :
            (Present(id) /\ ~Solid(id)) => ~(\E i \in CellIndexes : IdentityOf(Cells[i]) = id)

\* C9: the extraction reaches its return on every grid, well-formed or not.
C9_Terminates == <>(pc = "done")

\* The extraction returned for a grid with a merge that is no solid rectangle.
C9_Witness == Returned /\ ~WellFormed /\ Len(Cells) >= 2

\* C10: every identity whose coordinates form a solid rectangle is emitted
\* as exactly that rectangle, and no region emitted for another, malformed,
\* identity contains a coordinate of it.
C10_OthersIntact ==
    Returned =>
        \A id \in Ids :
            (Present(id) /\ Solid(id)) =>
                /\ \E i \in CellIndexes :
                      /\ RegionOf(Cells[i]) = CellsOf(id)
                      /\ \A j \in CellIndexes : IdentityOf(Cells[j]) = id => j = i
                /\ \A j \in CellIndexes :
                      (IdentityOf(Cells[j]) # id /\ ~Solid(IdentityOf(Cells[j])))
                          => RegionOf(Cells[j]) \cap CellsOf(id) = {}

----------------------------------------------------------------------------
(* Claims on the writer *)

\* The text a reader finds at a coordinate of the destination grid.
TextAt(p) == cell_text[table[p]]

\* C3: an entry is applied if and only if 0 <= row < totalRows and
\* 0 <= column < totalColumns; every other entry, a negative row or column
\* included, is skipped and changes no destination cell.
C3_BoundsRule ==
    (last # NoValue /\ last.outcome # "keyerror") =>
        /\ InBounds(last.inst) => last.outcome = "applied"
        /\ ~InBounds(last.inst) => last.outcome = "skipped"

\* C4: an out-of-bounds entry is not fatal: the write never ends by raising or
\* aborting, and an in-bounds entry that comes after an out-of-bounds one is
\* still applied.
C4_OutOfBoundsNotFatal ==
    /\ (last # NoValue /\ ~InBounds(last.inst)) => fill_pc \notin {"failed", "raised"}
    /\ (last # NoValue /\ last.outcome # "keyerror" /\ last.after_oob
            /\ InBounds(last.inst))
          => last.outcome = "applied"

\* C7: after a write to a coordinate inside the grid, every coordinate of the
\* region that owns it reads the new text, and no step of the writer changes
\* the partition of the destination into regions.
C7_MergedWrite ==
    /\ [](\A inst \in Instructions(total_rows, total_columns) :
            (last # NoValue /\ last.inst = inst
                /\ InBounds(inst) /\ last.outcome = "applied")
            => \A p \in CellsOf(table[<<inst.row, inst.column>>]) :
                  TextAt(p) = inst.text_to_fill)
    /\ [][table' = table /\ total_rows' = total_rows
            /\ total_columns' = total_columns]_vars

\* A write through the second coordinate of a merged region of three or more
\* coordinates, in a table that holds other cells too.
C7_Witness ==
    /\ last # NoValue
    /\ last.outcome = "applied"
    /\ InBounds(last.inst)
    /\ <<last.inst.row, last.inst.column>> # <<0, 0>>
    /\ Cardinality(CellsOf(table[<<last.inst.row, last.inst.column>>])) >= 3
    /\ \A p \in CellsOf(table[<<last.inst.row, last.inst.column>>]) :
          TextAt(p) = last.inst.text_to_fill
    /\ \E p \in Grid : TextAt(p) # last.inst.text_to_fill

----------------------------------------------------------------------------
(* Claims on reconciliation *)

Fill(r, c, t) == [row |-> r, column |-> c, text |-> t]

\* The step folds the fill f.
Folds(f) == fills_done' = Append(fills_done, f)

KeyOf(f) == <<f.row, f.column>>

\* The worked examples of the collision rule.
C5_Examples ==
    /\ fills_done = <<Fill(1, 1, TextA), Fill(1, 1, TextB)>>
          => mapping[<<1, 1>>] = <<"A", Newline, "B">>
    /\ fills_done = <<Fill(1, 1, TextB), Fill(1, 1, TextA)>>
          => mapping[<<1, 1>>] = <<"B", Newline, "A">>
    /\ fills_done = <<Fill(3, 2, Physics), Fill(3, 2, PhysicsLab)>>
          => mapping[<<3, 2>>] = Physics \o <<Newline>> \o PhysicsLab

\* C5 as stated: the first fill of a coordinate sets the entry to its text,
\* and each later fill of that coordinate appends its text after one newline.
C5_EveryLaterFillAppends ==
    /\ [](C5_Examples)
    /\ [][\A f \in ExpandedFills :
            Folds(f) =>
                mapping'[KeyOf(f)] =
                    IF KeyOf(f) \in DOMAIN mapping
                    THEN mapping[KeyOf(f)] \o <<Newline>> \o f.text
                    ELSE f.text]_vars

\* C5, amended: the first fill of a coordinate sets the entry to its text, and
\* each later fill of that coordinate whose text the entry does not already
\* contain appends its text after one newline; the examples come out as
\* "A\nB", "B\nA" and "Physics (3rd sem)\nPhysics Lab (3rd sem)".
C5_CollisionRule ==
    /\ [](C5_Examples)
    /\ [][\A f \in ExpandedFills :
            (Folds(f) /\ ~(KeyOf(f) \in DOMAIN mapping
                              /\ IsSubstring(f.text, mapping[KeyOf(f)])))
            => /\ mapping'[KeyOf(f)] =
                    IF KeyOf(f) \in DOMAIN mapping
                    THEN mapping[KeyOf(f)] \o <<Newline>> \o f.text
                    ELSE f.text
               /\ \A k \in DOMAIN mapping \ {KeyOf(f)} : mapping'[k] = mapping[k]]_vars

\* Three fills of one coordinate, each appended after the one before.
C5_Witness ==
    /\ fills_done = <<Fill(3, 2, Physics), Fill(3, 2, PhysicsLab), Fill(3, 2, TextA)>>
    /\ mapping[<<3, 2>>] = Physics \o <<Newline>> \o PhysicsLab \o <<Newline, "A">>

\* C6: a fill whose text the entry of its coordinate already contains leaves
\* the mapping unchanged; the same fill twice gives "A", not "A\nA"; a repeat
\* of any fill folded before changes nothing.
C6_Idempotence ==
    /\ [](fills_done = <<Fill(1, 1, TextA), Fill(1, 1, TextA)>>
            => mapping = (<<1, 1>> :> TextA))
    /\ [][\A f \in ExpandedFills :
            (Folds(f) /\ KeyOf(f) \in DOMAIN mapping
                /\ IsSubstring(f.text, mapping[KeyOf(f)]))
            => mapping' = mapping]_vars
    /\ [][\A f \in ExpandedFills :
            (Folds(f) /\ \E i \in 1 .. Len(fills_done) : fills_done[i] = f)
            => mapping' = mapping]_vars

\* A fill repeated after another fill of the same coordinate was appended.
C6_Witness ==
    /\ fills_done = <<Fill(1, 1, TextA), Fill(1, 1, TextB), Fill(1, 1, TextA)>>
    /\ mapping = (<<1, 1>> :> <<"A", Newline, "B">>)

----------------------------------------------------------------------------
(* Claims on the texts and the order of the blueprint *)

\* No two coordinates share a cell identity.
NoMerges == \A p \in Grid, q \in Grid : p # q => table[p] # table[q]

\* A text that normalisation has nothing to do on.
Clean(t) ==
    /\ \A i \in 1 .. Len(t) : t[i] # Newline
    /\ t # <<>> => (t[1] \notin Whitespace /\ t[Len(t)] \notin Whitespace)

OneByOne(cell) == cell.start_row = cell.end_row /\ cell.start_col = cell.end_col

\* C11 as stated: a grid without merges yields totalRows x totalColumns regions
\* of size 1x1, each with exactly the original text of its cell, whatever
\* that text is.
C11_RoundTripAnyText ==
    (Returned /\ NoMerges) =>
        /\ Len(Cells) = total_rows * total_columns
        /\ \A i \in CellIndexes : OneByOne(Cells[i]) /\ Cells[i].text = raw_texts[i]

\* C11, amended: a grid without merges yields totalRows x totalColumns regions
\* of size 1x1, each with the original text of its cell after every newline
\* became a space and the surrounding whitespace was removed: the original
\* text itself when it has neither, "A B" for " A\nB\n".
C11_RoundTrip ==
    (Returned /\ NoMerges) =>
        /\ Len(Cells) = total_rows * total_columns
        /\ \A i \in CellIndexes :
              /\ OneByOne(Cells[i])
              /\ Clean(raw_texts[i]) => Cells[i].text = raw_texts[i]
              /\ raw_texts[i] = Messy => Cells[i].text = <<"A", " ", "B">>

\* A 2x3 grid without merges that holds a clean text and one to normalise.
C11_Witness ==
    /\ Returned
    /\ NoMerges
    /\ total_rows = 2 /\ total_columns = 3
    /\ \E i \in CellIndexes : raw_texts[i] = Messy
    /\ \E i \in CellIndexes : raw_texts[i] = Math

\* The grid of the scenario: (0,0)-(0,1) merged, (0,2) alone, (1,0)-(1,2) merged.
ScenarioTable ==
    (<<0, 0>> :> 1 @@ <<0, 1>> :> 1 @@ <<0, 2>> :> 2 @@
     <<1, 0>> :> 3 @@ <<1, 1>> :> 3 @@ <<1, 2>> :> 3)

Scenario ==
    /\ total_rows = 2 /\ total_columns = 3
    /\ table = ScenarioTable
    /\ raw_texts = <<Math, Lit, Sci>>

\* C12: the scenario grid yields exactly {0,0,0,1,"Math"}, {0,2,0,2,"Lit"},
\* {1,0,1,2,"Sci"} in this order, and on every grid the regions come in the
\* row-major order of their top-left coordinates.
C12_ScenarioAndOrder ==
    Returned =>
        /\ Scenario =>
              Cells = << [text |-> Math, start_row |-> 0, start_col |-> 0,
                          end_row |-> 0, end_col |-> 1],
                         [text |-> Lit, start_row |-> 0, start_col |-> 2,
                          end_row |-> 0, end_col |-> 2],
                         [text |-> Sci, start_row |-> 1, start_col |-> 0,
                          end_row |-> 1, end_col |-> 2] >>
        /\ \A i \in CellIndexes, j \in CellIndexes :
              i < j =>
                  \/ Cells[i].start_row < Cells[j].start_row
                  \/ /\ Cells[i].start_row = Cells[j].start_row
                     /\ Cells[i].start_col < Cells[j].start_col

\* The extraction returned for the scenario grid with the scenario texts.
C12_Witness == Returned /\ Scenario /\ Len(Cells) = 3

ZeroDimension == total_rows = 0 \/ total_columns = 0

\* C13: a grid with no row or no column runs straight to the return, with no
\* error outcome, and the blueprint returned holds no cell and the given
\* totalRows and totalColumns.
C13_EmptyGrid ==
    ZeroDimension =>
        /\ pc \in {"start", "return", "done"}
        /\ cell_definitions = <<>>
        /\ Returned => blueprint = [total_rows |-> total_rows,
                                     total_columns |-> total_columns,
                                     cells |-> <<>>]

\* An empty blueprint was returned for a table with rows and no column.
C13_Witness ==
    /\ Returned
    /\ total_rows > 0 /\ total_columns = 0
    /\ blueprint.cells = <<>>

----------------------------------------------------------------------------
(* Claims on span expansion *)

\* The positions in the output of the fills that Candidate i produced.
FillsOf(i) == {k \in DOMAIN expanded : expanded_from[k] = i}

RegionCoords(reg) == (reg.startRow .. reg.endRow) \X (reg.startCol .. reg.endCol)

\* expand went through every coordinate of Candidate i.
Expanded(i) == i < cand_i

ExpandDone == cand_i > Len(candidates)

\* C14: expanding a Candidate with region r0..r1, c0..c1 yields exactly
\* (r1-r0+1)*(c1-c0+1) ExpandedFills, one for each coordinate of the region and
\* none for another coordinate, each with the Candidate's sourceIndex and text.
C14_ExpansionCount ==
    \A i \in DOMAIN candidates :
        LET reg == candidates[i].region
        IN  /\ \A k \in FillsOf(i) :
                  /\ <<expanded[k].row, expanded[k].column>> \in RegionCoords(reg)
                  /\ expanded[k].sourceIndex = candidates[i].sourceIndex
                  /\ expanded[k].text = candidates[i].text
            /\ Expanded(i) =>
                  /\ Cardinality(FillsOf(i)) =
                         (reg.endRow - reg.startRow + 1) * (reg.endCol - reg.startCol + 1)
                  /\ \A p \in RegionCoords(reg) :
                        Cardinality({k \in FillsOf(i) :
                            <<expanded[k].row, expanded[k].column>> = p}) = 1

\* Two Candidates were expanded, the first with a region of two rows and two
\* columns at least, the second with another source and text.
C14_Witness ==
    /\ ExpandDone
    /\ Len(candidates) = 2
    /\ candidates[1].region.startRow < candidates[1].region.endRow
    /\ candidates[1].region.startCol < candidates[1].region.endCol
    /\ candidates[2].sourceIndex # candidates[1].sourceIndex
    /\ candidates[2].text # candidates[1].text
    /\ Cardinality(FillsOf(1)) >= 4

\* C15: all ExpandedFills of Candidate i come before all of Candidate i+1, and
\* the fills of one Candidate are in row-major order.
C15_ExpansionOrder ==
    \A k \in DOMAIN expanded, l \in DOMAIN expanded :
        k < l =>
            /\ expanded_from[k] <= expanded_from[l]
            /\ expanded_from[k] = expanded_from[l] =>
                  \/ expanded[k].row < expanded[l].row
                  \/ /\ expanded[k].row = expanded[l].row
                     /\ expanded[k].column < expanded[l].column

\* Two Candidates with overlapping regions of several rows and columns were
\* expanded, so the output holds a coordinate twice.
C15_Witness ==
    /\ ExpandDone
    /\ Len(candidates) = 2
    /\ \A i \in {1, 2} :
          /\ candidates[i].region.startRow < candidates[i].region.endRow
          /\ candidates[i].region.startCol < candidates[i].region.endCol
    /\ \E k \in FillsOf(1), l \in FillsOf(2) :
          /\ expanded[k].row = expanded[l].row
          /\ expanded[k].column = expanded[l].column

----------------------------------------------------------------------------
(* Claims on what reconciliation keeps *)

\* C17: reconciliation does not bounds-check: every coordinate of an input
\* fill, one outside totalRows x totalColumns of the destination included, is
\* a key of the FinalMapping.
C17_NoBoundsCheck ==
    \A i \in DOMAIN fills_done : KeyOf(fills_done[i]) \in DOMAIN mapping

\* A fill outside the destination and one inside it were folded, and both
\* coordinates are keys of the mapping.
C17_Witness ==
    \E i \in DOMAIN fills_done, j \in DOMAIN fills_done :
        /\ ~ InBounds(fills_done[i])
        /\ InBounds(fills_done[j])
        /\ KeyOf(fills_done[i]) \in DOMAIN mapping
        /\ KeyOf(fills_done[j]) \in DOMAIN mapping

----------------------------------------------------------------------------
(* Claims on the orchestrators *)

\* generate_fill_instructions was called.
Generated == prompt # NoValue

\* C16 as stated, for the classifier call of the code: the classifier is called
\* exactly once per cell of the source blueprints.
C16_OncePerCell ==
    Generated => classify_calls = r1_ctx.n_cells + r2_ctx.n_cells

\* C16, amended: the classifier is called exactly once per run, whatever the
\* number of cells, with one prompt that holds the blueprints in source order:
\* routine 1, routine 2, clean template.
C16_OncePerRun ==
    /\ classify_calls = IF Generated THEN 1 ELSE 0
    /\ Generated =>
          /\ prompt = <<r1_ctx, r2_ctx, cl_ctx>>
          /\ AllContexts(r1_ctx, r2_ctx, cl_ctx)
    /\ ~ Generated => instructions = NoValue

\* One call was made for source blueprints of three cells and more, and it
\* returned instructions.
C16_Witness ==
    /\ Generated
    /\ classify_calls = 1
    /\ r1_ctx.n_cells + r2_ctx.n_cells >= 3
    /\ Truthy(instructions)

\* C19: the fill-and-save step runs at most once per run, and only after the
\* three blueprints were built and the classifier returned non-empty
\* instructions; when a step fails or a file selection is cancelled there is
\* no fill and no saved document.
C19_SingleWriter ==
    /\ fill_calls <= 1
    /\ doc_saves <= fill_calls
    /\ fill_calls = 1 =>
          /\ Truthy(gemini_model)
          /\ Truthy(r1_path) /\ Truthy(r2_path) /\ Truthy(clean_path)
          /\ Truthy(r1_ctx) /\ Truthy(r2_ctx) /\ Truthy(cl_ctx)
          /\ Generated /\ Truthy(instructions)
          /\ entry = "main" => Truthy(save_path)
    /\ main_pc \in {"fill", "save_path"} => fill_calls = 0

\* run_routine_process filled and saved once and ran to its end.
C19_Witness ==
    /\ main_pc = "done"
    /\ entry = "run_routine_process"
    /\ fill_calls = 1
    /\ doc_saves = 1

----------------------------------------------------------------------------
(* Claims on the cached classifier handle *)

\* C20: once a call of get_gemini_model has succeeded, every later call returns
\* that same instance without asking for the key or configuring again; a call
\* that fails returns None and leaves the cache unset, and the call after it
\* tries again.
C20_ConfigureOnce ==
    [][ /\ GEMINI_MODEL # NoValue =>
              /\ GEMINI_MODEL' = GEMINI_MODEL
              /\ result' = GEMINI_MODEL
              /\ key_prompts' = key_prompts
              /\ configures' = configures
              /\ instances' = instances
        /\ GEMINI_MODEL = NoValue =>
              /\ key_prompts' > key_prompts \/ configures' > configures
              /\ result' = NoValue => GEMINI_MODEL' = NoValue
              /\ result' # NoValue => GEMINI_MODEL' = result'
      ]_vars

\* A call failed, a later one succeeded, and a call after that was answered
\* from the cache: three calls and more with the key from the environment, two
\* configure calls and one model built.
C20_Witness ==
    /\ calls >= 3
    /\ GEMINI_MODEL # NoValue
    /\ result = GEMINI_MODEL
    /\ instances = 1
    /\ key_prompts = 0
    /\ configures = 2

----------------------------------------------------------------------------
(* Claims on repeated and untouched cells in the writer *)

\* The cell identities of the destination table.
TableIds == {table[p] : p \in Grid}

\* C21: when several in-bounds instructions of the list address the same cell
\* identity, the final text of the cell is the text of the last of them in
\* list order.
C21_LastWriteWins ==
    \A id \in TableIds :
        in_bounds_texts[id].entries = "several" =>
            cell_text[id] = in_bounds_texts[id].text

\* C22: every cell identity that no in-bounds instruction addresses keeps the
\* text it had before the write.
C22_WriterFrame ==
    \A id \in TableIds :
        in_bounds_texts[id].entries = "none" => cell_text[id] = ""

----------------------------------------------------------------------------
(* Claims on the outcome of fill_and_save_routine *)

\* The call of the writer is over.
FillEnded == fill_pc \in {"saved", "failed", "raised"}

\* C23: fill_and_save_routine of routine.py returns True exactly when the
\* document was saved after the whole list; with an instruction string that
\* is not JSON, a template without a table, an instruction that lacks a key or
\* a cell write that fails, it returns False, raises nothing and saves nothing.
C23_AllOrNothing ==
    variant = "routine" =>
        /\ fill_pc # "raised"
        /\ fill_pc = "saved" <=> saved # NoValue
        /\ fill_pc = "failed" => saved = NoValue
        /\ FillEnded =>
              /\ ~ json_valid => fill_pc = "failed"
              /\ table = NoValue => fill_pc = "failed"
        /\ (last # NoValue /\ last.outcome \in {"keyerror", "error"}) =>
              fill_pc = "failed"

\* routine.py returned False, with nothing saved, on an instruction without
\* text_to_fill that came after an applied write.
C23_Witness ==
    /\ variant = "routine"
    /\ fill_pc = "failed"
    /\ saved = NoValue
    /\ last # NoValue
    /\ last.outcome = "keyerror"
    /\ n_done >= 2
    /\ \E id \in TableIds : cell_text[id] # ""

----------------------------------------------------------------------------
(* Claims on the normalised text *)

\* t is the text raw with a run of whitespace cut off at each end and every
\* newline in between turned into a space.
NormalisedFrom(t, raw) ==
    \E k \in 0 .. Len(raw) :
        /\ k + Len(t) <= Len(raw)
        /\ \A j \in 1 .. Len(t) :
              t[j] = IF raw[k + j] = Newline THEN " " ELSE raw[k + j]
        /\ \A j \in 1 .. k : raw[j] \in Whitespace
        /\ \A j \in (k + Len(t) + 1) .. Len(raw) : raw[j] \in Whitespace

\* C24: the text recorded for every emitted region is the text of the cell
\* with each newline replaced by a space and the whitespace at both ends
\* removed: it holds no newline and neither starts nor ends with whitespace.
C24_NormalisedText ==
    \A i \in DOMAIN cell_definitions :
        LET t == cell_definitions[i].text
        IN  /\ \A j \in 1 .. Len(t) : t[j] # Newline
            /\ t # <<>> => (t[1] \notin Whitespace /\ t[Len(t)] \notin Whitespace)
            /\ NormalisedFrom(t, raw_texts[i])

\* A blueprint was returned with a cell read as " A\nB\n" and recorded as
\* "A B", and a cell of whitespace only recorded as the empty text.
C24_Witness ==
    /\ Returned
    /\ \E i \in CellIndexes :
          raw_texts[i] = Messy /\ Cells[i].text = <<"A", " ", "B">>
    /\ \E i \in CellIndexes :
          raw_texts[i] = Blank /\ Cells[i].text = <<>>

====
